---------------------------- MODULE Spec2Model ----------------------------
(***************************************************************************)
(* Model of the project-tracker backend (src/tracker): the MiniProject and *)
(* TraineeProgress tables, the permission classes, and the handlers of     *)
(* MiniProjectViewSet (list, retrieve, create, update, partial_update,     *)
(* destroy, my_progress, comment).  Handlers that touch the database in    *)
(* several statements are split into one step per statement, so that       *)
(* concurrent requests interleave the way the stateless handlers do.       *)
(***************************************************************************)
EXTENDS Integers, Sequences, FiniteSets, TLC

VARIABLES
    projects,   \* MiniProject table with its assigned_to rows: id -> row
    progress,   \* TraineeProgress table: a set of rows
    nextId,     \* next primary key of TraineeProgress
    clock,      \* source of timezone.now()
    req,        \* one request slot per worker: inputs, locals, response
    nreq,       \* number of requests started so far
    versions    \* history: per project, the (fields, assigned) pairs written as a whole

vars == <<projects, progress, nextId, clock, req, nreq, versions>>

---------------------------------------------------------------------------
(* Bounds *)

MaxReqs == 2

MaxClock == 2

---------------------------------------------------------------------------
(* Accounts, profiles, projects *)

Users == {1, 2, 3}

Anon == 0

UnknownUserId == 9

ProjectIds == {1, 2}

Procs == {"a", "b"}

\* Profile.role, one per account
role(u) == IF u = 1 THEN "trainer" ELSE "trainee"

is_authenticated(u) == u \in Users

STATUS_CHOICES == {"todo", "inprogress", "complete"}

TRAINEE_ALLOWED_FIELDS ==
    {"status", "report", "deployment_link", "github_link", "completed_at"}

IGNORED_KEYS == {"csrfmiddlewaretoken"}

SAFE_METHODS == {"GET", "HEAD", "OPTIONS"}

NoStr == "None"

None == << >>

---------------------------------------------------------------------------
(* Timestamps and their text forms.  A text is a sequence of tokens.       *)

TokLen(t) ==
    CASE t = "2024" -> 4
      [] t \in {"01", "10", "00", "30"} -> 2
      [] t \in {"-", "T", ":", " ", "h"} -> 1
      [] t = "tomorrow" -> 8
      [] OTHER -> 1

IsNum(t) == t \in {"2024", "01", "10", "00", "30"}

Num(t) ==
    CASE t = "2024" -> 2024
      [] t = "01" -> 1
      [] t = "10" -> 10
      [] t = "30" -> 30
      [] OTHER -> 0

RECURSIVE StrLen(_)
StrLen(s) == IF s = << >> THEN 0 ELSE TokLen(Head(s)) + StrLen(Tail(s))

\* django.utils.dateparse.parse_datetime as the handler uses it: the date, a
\* separator, hours and minutes, and optionally seconds; None when the text
\* does not have that shape.
parse_datetime(s) ==
    LET n == Len(s)
        shape == /\ n \in {9, 11}
                 /\ IsNum(s[1]) /\ TokLen(s[1]) = 4
                 /\ s[2] = "-" /\ IsNum(s[3])
                 /\ s[4] = "-" /\ IsNum(s[5])
                 /\ s[6] \in {"T", " "}
                 /\ IsNum(s[7]) /\ s[8] = ":" /\ IsNum(s[9])
                 /\ (n = 11 => s[10] = ":" /\ IsNum(s[11]))
    IN IF shape
       THEN << [y |-> Num(s[1]), mo |-> Num(s[3]), d |-> Num(s[5]),
                h |-> Num(s[7]), mi |-> Num(s[9]),
                s |-> IF n = 11 THEN Num(s[11]) ELSE 0] >>
       ELSE None

\* timezone.now(): a server time, later than every client-sent time
now(c) == << [y |-> 2025, mo |-> 1, d |-> c, h |-> 0, mi |-> 0, s |-> 0] >>

\* views.py 154-167: the handler's own reading of the client-sent text
client_parsed(text) ==
    LET first == parse_datetime(text)
        normal == IF StrLen(text) = 16 THEN text \o <<":", "00">> ELSE text
    IN IF first # None THEN first ELSE parse_datetime(normal)

FullText == <<"2024", "-", "01", "-", "01", "T", "10", ":", "00", ":", "30">>

ShortText == <<"2024", "-", "01", "-", "01", "T", "10", ":", "00">>

JunkText == <<"tomorrow">>

Junk16Text == <<"2024", "-", "01", "-", "01", "T", "10", "h", "00">>

EmptyText == << >>

---------------------------------------------------------------------------
(* Request bodies *)

Keys == {"status", "report", "deployment_link", "github_link", "completed_at",
         "trainer_comment", "trainee", "csrfmiddlewaretoken", "comment",
         "title", "priority", "assigned_to"}

\* A body: the keys present and their values.  completed_at_null tells a JSON
\* null from a text; html tells form-encoded input.
EmptyBody ==
    [keys |-> {}, html |-> FALSE, status |-> NoStr, github_link |-> NoStr,
     deployment_link |-> NoStr, report |-> NoStr,
     completed_at |-> EmptyText, completed_at_null |-> FALSE,
     trainer_comment |-> NoStr, trainee |-> 0, comment |-> NoStr,
     title |-> NoStr, priority |-> NoStr, assigned_to |-> {}]

BStatus(s) == [EmptyBody EXCEPT !.keys = {"status"}, !.status = s]

BCompleted(b, text) ==
    [b EXCEPT !.keys = @ \cup {"completed_at"}, !.completed_at = text]

BNull(b) ==
    [b EXCEPT !.keys = @ \cup {"completed_at"}, !.completed_at_null = TRUE]

BKey(b, k) == [b EXCEPT !.keys = @ \cup {k}]

---------------------------------------------------------------------------
(* Permission classes (permissions.py) and their selection (views.py) *)

\* IsTrainer without its role test
IsTrainer_any_role(u) == is_authenticated(u)

\* IsTrainer.has_permission
IsTrainer_has_permission(u) == is_authenticated(u) /\ role(u) = "trainer"

IsAuthenticated_has_permission(u) == is_authenticated(u)

\* has_object_permission without the test of the submitted field names
has_object_permission_any_field(method, u, action, keys, assigned) ==
    IF method \in SAFE_METHODS THEN TRUE
    ELSE IF ~is_authenticated(u) THEN FALSE
    ELSE IF role(u) = "trainer" THEN TRUE
    ELSE IF u \in assigned
         THEN action = "my_progress" /\ method \in {"PATCH", "PUT"}
              /\ keys \ IGNORED_KEYS # {}
         ELSE FALSE

\* IsAssignedOrTrainerOrReadOnly.has_object_permission
has_object_permission(method, u, action, keys, assigned) ==
    IF method \in SAFE_METHODS THEN TRUE
    ELSE IF ~is_authenticated(u) THEN FALSE
    ELSE IF role(u) = "trainer" THEN TRUE
    ELSE IF u \in assigned
         THEN IF action = "my_progress" /\ method \in {"PATCH", "PUT"}
              THEN LET ks == keys \ IGNORED_KEYS
                   IN IF ks = {} THEN FALSE
                      ELSE ks \subseteq TRAINEE_ALLOWED_FIELDS
              ELSE FALSE
         ELSE FALSE

get_permissions(action) ==
    IF action \in {"create", "destroy", "update", "partial_update"}
    THEN {"IsTrainer"}
    ELSE IF action = "comment" THEN {"IsAuthenticated", "IsTrainer"}
    ELSE {"IsAssignedOrTrainerOrReadOnly"}

\* APIView.check_permissions over the classes of the action
check_permissions(action, u) ==
    \A c \in get_permissions(action) :
        CASE c = "IsTrainer" -> IsTrainer_has_permission(u)
          [] c = "IsAuthenticated" -> IsAuthenticated_has_permission(u)
          [] OTHER -> TRUE

\* APIView.check_object_permissions over the classes of the action
check_object_permissions(action, method, u, keys, assigned) ==
    \A c \in get_permissions(action) :
        IF c = "IsAssignedOrTrainerOrReadOnly"
        THEN has_object_permission(method, u, action, keys, assigned)
        ELSE TRUE

\* The status of a permission denial: 401 or 403 for an unauthenticated
\* actor (it depends on the configured authenticators), 403 otherwise.
DeniedStatus(u) == IF is_authenticated(u) THEN {403} ELSE {401, 403}

---------------------------------------------------------------------------
(* Querysets: a queryset is a bag of project ids, id -> number of join rows *)

\* The queryset left as the join produced it
not_distinct(qs) == qs

\* QuerySet.distinct()
distinct(qs) == [i \in ProjectIds |-> IF qs[i] > 0 THEN 1 ELSE 0]

\* MiniProjectViewSet.get_queryset
get_queryset(u, status_filter, prj, prg) ==
    IF ~is_authenticated(u) THEN [i \in ProjectIds |-> 0]
    ELSE
      LET is_trainer == role(u) = "trainer"
          base(i) == IF prj[i].exists /\ (is_trainer \/ u \in prj[i].assigned)
                     THEN 1 ELSE 0
          joined(i) ==
              IF is_trainer
              THEN Cardinality({r \in prg : r.project = i /\ r.status = status_filter})
              ELSE Cardinality({r \in prg : /\ r.project = i
                                            /\ r.status = status_filter
                                            /\ r.trainee = u})
          qs == [i \in ProjectIds |->
                   IF status_filter # "" THEN base(i) * joined(i) ELSE base(i)]
      IN distinct(qs)

\* GenericAPIView.get_object: the lookup in the view's queryset
object_found(u, status_filter, pk, prj, prg) ==
    get_queryset(u, status_filter, prj, prg)[pk] > 0

---------------------------------------------------------------------------
(* Serializers *)

\* TraineeProgressSerializer: the validated value of completed_at
validated_completed_at(data) ==
    IF data.completed_at_null \/ (data.html /\ data.completed_at = EmptyText)
    THEN None
    ELSE parse_datetime(data.completed_at)

\* TraineeProgressSerializer(...).is_valid
progress_is_valid(data, partial) ==
    /\ "trainee" \in data.keys => data.trainee \in Users
    /\ "trainee" \notin data.keys => partial
    /\ "status" \in data.keys => data.status \in STATUS_CHOICES
    /\ "completed_at" \in data.keys =>
          \/ data.completed_at_null
          \/ data.html /\ data.completed_at = EmptyText
          \/ parse_datetime(data.completed_at) # None

\* ModelSerializer.update: the validated attributes set on the instance
progress_apply(inst, data) ==
    [inst EXCEPT
       !.trainee = IF "trainee" \in data.keys THEN data.trainee ELSE @,
       !.status = IF "status" \in data.keys THEN data.status ELSE @,
       !.report = IF "report" \in data.keys THEN data.report ELSE @,
       !.deployment_link =
           IF "deployment_link" \in data.keys THEN data.deployment_link ELSE @,
       !.github_link = IF "github_link" \in data.keys THEN data.github_link ELSE @,
       !.trainer_comment =
           IF "trainer_comment" \in data.keys THEN data.trainer_comment ELSE @,
       !.completed_at =
           IF "completed_at" \in data.keys THEN validated_completed_at(data) ELSE @]

\* to_representation without the trainee's filter
to_representation_unfiltered(u, pid, prg) == {r \in prg : r.project = pid}

\* MiniProjectSerializer.to_representation: the progress_entries shown
to_representation(u, pid, prg) ==
    LET entries == {r \in prg : r.project = pid}
    IN IF is_authenticated(u) /\ role(u) = "trainee"
       THEN {r \in entries : r.trainee = u}
       ELSE entries

---------------------------------------------------------------------------
(* The TraineeProgress table *)

NewProgress(id, t, p) ==
    [id |-> id, trainee |-> t, project |-> p, status |-> "todo",
     report |-> NoStr, deployment_link |-> NoStr, github_link |-> NoStr,
     completed_at |-> None, trainer_comment |-> NoStr]

rows_for(tbl, t, p) == {r \in tbl : r.trainee = t /\ r.project = p}

\* The table without its unique constraint
unique_together_dropped(tbl, row) == FALSE

\* Meta.unique_together = ("trainee", "project"), as the database enforces it:
\* whether writing the row would break it
unique_together(tbl, row) ==
    \E r \in tbl : r.id # row.id /\ r.trainee = row.trainee /\ r.project = row.project

\* Model.save(): every column of the row with this primary key is written
save_row(tbl, row) == {r \in tbl : r.id # row.id} \cup {row}

\* str.strip() on the comment texts of the model
strip(c) ==
    CASE c = " good " -> "good"
      [] c = "  " -> ""
      [] c = NoStr -> ""
      [] OTHER -> c

---------------------------------------------------------------------------
(* State *)

NoProject ==
    [exists |-> FALSE, title |-> NoStr, priority |-> NoStr, assigned |-> {},
     created_by |-> 0]

IdleReq ==
    [pc |-> "idle", action |-> "", method |-> "", user |-> 0, pk |-> 1,
     status_filter |-> "", data |-> EmptyBody,
     inst |-> << >>,      \* the TraineeProgress instance held in memory
     pre |-> << >>,       \* that instance as get_or_create returned it
     goc |-> "",          \* how get_or_create ended: found, created, refetched
     autoset |-> FALSE,   \* whether line 171 set completed_at to now
     resp |-> 0,          \* the response status, 0 while in flight
     out |-> {},          \* the serialized TraineeProgress of the response
     listing |-> [i \in ProjectIds |-> 0],      \* the projects of the response
     shown |-> [i \in ProjectIds |-> {}],       \* progress_entries per project
     work |-> NoProject,  \* the MiniProject instance held in memory
     pending |-> << >>]   \* the uncommitted writes of the open transaction

\* A request as the dispatcher hands it to the handler
NewReq(action, method, u, pk, sf, data) ==
    [IdleReq EXCEPT !.pc = "start", !.action = action, !.method = method,
                    !.user = u, !.pk = pk, !.status_filter = sf, !.data = data]

Respond(r, code) == [r EXCEPT !.pc = "done", !.resp = code]

Free(p) == req[p].pc \in {"idle", "done"} /\ nreq < MaxReqs

InitProjects ==
    [i \in ProjectIds |->
        IF i = 1
        THEN [exists |-> TRUE, title |-> "t0", priority |-> "medium",
              assigned |-> {1, 2}, created_by |-> 1]
        ELSE NoProject]

\* The plain fields and the assigned set of a project row
Pair(row) == <<row.title, row.priority, row.assigned>>

InitVersions(prj) ==
    [i \in ProjectIds |-> IF prj[i].exists THEN {Pair(prj[i])} ELSE {}]

Init ==
    /\ projects = InitProjects
    /\ progress = {}
    /\ nextId = 1
    /\ clock = 0
    /\ req = [p \in Procs |-> IdleReq]
    /\ nreq = 0
    /\ versions = InitVersions(InitProjects)

---------------------------------------------------------------------------
(* my_progress (views.py 133-177) *)

\* dispatch and line 138: check_permissions, get_object, check_object_permissions
MyProgressBegin(p, u, pk, method, data) ==
    /\ Free(p)
    /\ LET r == NewReq("my_progress", method, u, pk, "", data)
       IN \E code \in DeniedStatus(u) :
            req' = [req EXCEPT ![p] =
              IF ~check_permissions("my_progress", u) THEN Respond(r, code)
              ELSE IF ~object_found(u, "", pk, projects, progress)
                   THEN Respond(r, 404)
              ELSE IF ~check_object_permissions("my_progress", method, u,
                                                data.keys, projects[pk].assigned)
                   THEN Respond(r, code)
              ELSE [r EXCEPT !.pc = "mp_assigned"]]
    /\ nreq' = nreq + 1
    /\ UNCHANGED <<projects, progress, nextId, clock, versions>>

\* lines 141-143
MyProgressAssigned(p) ==
    /\ req[p].pc = "mp_assigned"
    /\ req' = [req EXCEPT ![p] =
                 IF req[p].user \in projects[req[p].pk].assigned
                 THEN [@ EXCEPT !.pc = "goc_get"]
                 ELSE Respond(@, 403)]
    /\ UNCHANGED <<projects, progress, nextId, clock, nreq, versions>>

\* The trainee whose entry the handler gets or creates (lines 145, 210)
goc_trainee(r) == IF r.action = "comment" THEN r.data.trainee ELSE r.user

AfterGoc(r) ==
    IF r.action = "comment" THEN [r EXCEPT !.pc = "cm_save"]
    ELSE IF r.method \in {"PATCH", "PUT"} THEN [r EXCEPT !.pc = "mp_save"]
    ELSE [Respond(r, 200) EXCEPT !.out = {r.inst[1]}]

\* get_or_create, first statement: get
GetOrCreateGet(p) ==
    /\ LET rows == rows_for(progress, goc_trainee(req[p]), req[p].pk)
       IN req' = [req EXCEPT ![p] =
            IF rows = {} THEN [@ EXCEPT !.pc = "goc_create"]
            ELSE IF Cardinality(rows) = 1
                 THEN LET row == CHOOSE x \in rows : TRUE
                      IN AfterGoc([@ EXCEPT !.inst = <<row>>, !.pre = <<row>>,
                                            !.goc = "found"])
            ELSE Respond(@, 500)]
    /\ UNCHANGED <<projects, progress, nextId, clock, nreq, versions>>

\* get_or_create, second statement: create, which the unique constraint may refuse
GetOrCreateCreate(p) ==
    /\ LET row == NewProgress(nextId, goc_trainee(req[p]), req[p].pk)
       IN IF unique_together(progress, row) \/ ~projects[req[p].pk].exists
          THEN /\ req' = [req EXCEPT ![p].pc = "goc_reget"]
               /\ UNCHANGED <<progress, nextId>>
          ELSE /\ progress' = progress \cup {row}
               /\ nextId' = nextId + 1
               /\ req' = [req EXCEPT ![p] =
                            AfterGoc([@ EXCEPT !.inst = <<row>>, !.pre = <<row>>,
                                               !.goc = "created"])]
    /\ UNCHANGED <<projects, clock, nreq, versions>>

\* get_or_create, after IntegrityError: get again, or re-raise
GetOrCreateReget(p) ==
    /\ LET rows == rows_for(progress, goc_trainee(req[p]), req[p].pk)
       IN req' = [req EXCEPT ![p] =
            IF Cardinality(rows) = 1
            THEN LET row == CHOOSE x \in rows : TRUE
                 IN AfterGoc([@ EXCEPT !.inst = <<row>>, !.pre = <<row>>,
                                       !.goc = "refetched"])
            ELSE Respond(@, 500)]
    /\ UNCHANGED <<projects, progress, nextId, clock, nreq, versions>>

\* QuerySet.get_or_create (lines 145, 210): its next statement
GetOrCreate(p) ==
    /\ req[p].pc \in {"goc_get", "goc_create", "goc_reget"}
    /\ IF req[p].pc = "goc_get" THEN GetOrCreateGet(p)
       ELSE IF req[p].pc = "goc_create" THEN GetOrCreateCreate(p)
       ELSE GetOrCreateReget(p)

\* lines 147-151: is_valid(raise_exception=True), serializer.save()
MyProgressSave(p) ==
    /\ req[p].pc = "mp_save"
    /\ LET r == req[p]
           updated == progress_apply(r.inst[1], r.data)
       IN IF ~progress_is_valid(r.data, r.method = "PATCH")
          THEN /\ req' = [req EXCEPT ![p] = Respond(r, 400)]
               /\ UNCHANGED progress
          ELSE IF unique_together(progress, updated)
          THEN /\ req' = [req EXCEPT ![p] = Respond(r, 500)]
               /\ UNCHANGED progress
          ELSE /\ progress' = save_row(progress, updated)
               /\ req' = [req EXCEPT ![p] =
                            [r EXCEPT !.pc = "mp_completed", !.inst = <<updated>>]]
    /\ UNCHANGED <<projects, nextId, clock, nreq, versions>>

\* request.data.get("completed_at") is truthy
client_completed(data) ==
    /\ "completed_at" \in data.keys
    /\ ~data.completed_at_null
    /\ data.completed_at # EmptyText

\* line 170 without the auto-set
auto_set_never(updated) == FALSE

\* line 170: the auto-set's condition on the saved instance
auto_set_due(updated) ==
    updated.status = "complete" /\ updated.completed_at = None

\* lines 153-174
MyProgressCompleted(p) ==
    /\ req[p].pc = "mp_completed"
    /\ LET r == req[p]
           updated == r.inst[1]
           parsed == client_parsed(r.data.completed_at)
       IN IF client_completed(r.data)
          THEN IF parsed # None
               THEN LET u2 == [updated EXCEPT !.completed_at = parsed]
                    IN /\ progress' = save_row(progress, u2)
                       /\ req' = [req EXCEPT ![p] =
                                    [Respond(r, 200) EXCEPT !.inst = <<u2>>,
                                                            !.out = {u2}]]
                       /\ UNCHANGED clock
               ELSE /\ req' = [req EXCEPT ![p] =
                                 [Respond(r, 200) EXCEPT !.out = {updated}]]
                    /\ UNCHANGED <<progress, clock>>
          ELSE IF auto_set_due(updated)
               THEN LET u2 == [updated EXCEPT !.completed_at = now(clock)]
                    IN /\ clock < MaxClock
                       /\ clock' = clock + 1
                       /\ progress' = save_row(progress, u2)
                       /\ req' = [req EXCEPT ![p] =
                                    [Respond(r, 200) EXCEPT !.inst = <<u2>>,
                                                            !.out = {u2},
                                                            !.autoset = TRUE]]
               ELSE /\ req' = [req EXCEPT ![p] =
                                 [Respond(r, 200) EXCEPT !.out = {updated}]]
                    /\ UNCHANGED <<progress, clock>>
    /\ UNCHANGED <<projects, nextId, nreq, versions>>

---------------------------------------------------------------------------
(* comment (views.py 179-217) *)

\* dispatch and lines 187-204
CommentBegin(p, u, pk, data) ==
    /\ Free(p)
    /\ LET r == NewReq("comment", "POST", u, pk, "", data)
           trainee_id == IF "trainee" \in data.keys THEN data.trainee ELSE 0
           comment_text == IF "comment" \in data.keys THEN strip(data.comment) ELSE ""
       IN \E code \in DeniedStatus(u) :
            req' = [req EXCEPT ![p] =
              IF ~check_permissions("comment", u) THEN Respond(r, code)
              ELSE IF ~object_found(u, "", pk, projects, progress)
                   THEN Respond(r, 404)
              ELSE IF role(u) # "trainer" THEN Respond(r, 403)
              ELSE IF trainee_id = 0 \/ comment_text = "" THEN Respond(r, 400)
              ELSE IF trainee_id \notin Users THEN Respond(r, 404)
              ELSE [r EXCEPT !.pc = "cm_assigned"]]
    /\ nreq' = nreq + 1
    /\ UNCHANGED <<projects, progress, nextId, clock, versions>>

\* lines 206-207
CommentAssigned(p) ==
    /\ req[p].pc = "cm_assigned"
    /\ req' = [req EXCEPT ![p] =
                 IF req[p].data.trainee \in projects[req[p].pk].assigned
                 THEN [@ EXCEPT !.pc = "goc_get"]
                 ELSE Respond(@, 400)]
    /\ UNCHANGED <<projects, progress, nextId, clock, nreq, versions>>

\* lines 212-217
CommentSave(p) ==
    /\ req[p].pc = "cm_save"
    /\ LET r == req[p]
           row == [r.inst[1] EXCEPT !.trainer_comment = strip(r.data.comment)]
       IN /\ progress' = save_row(progress, row)
          /\ req' = [req EXCEPT ![p] =
                       [Respond(r, 200) EXCEPT !.inst = <<row>>, !.out = {row}]]
    /\ UNCHANGED <<projects, nextId, clock, nreq, versions>>

---------------------------------------------------------------------------
(* Project handlers: list, retrieve, create, destroy *)

PRIORITY_CHOICES == {"low", "medium", "high"}

\* MiniProjectSerializer(...).is_valid
project_is_valid(data, partial) ==
    /\ "title" \notin data.keys => partial
    /\ "priority" \in data.keys => data.priority \in PRIORITY_CHOICES
    /\ "assigned_to" \in data.keys => data.assigned_to \subseteq Users

\* The progress_entries of the projects of a response
Shown(u, listed) ==
    [i \in ProjectIds |->
        IF listed[i] > 0 THEN to_representation(u, i, progress) ELSE {}]

Only(pk) == [i \in ProjectIds |-> IF i = pk THEN 1 ELSE 0]

\* ListModelMixin.list over get_queryset
List(p, u, sf) ==
    /\ Free(p)
    /\ LET r == NewReq("list", "GET", u, 1, sf, EmptyBody)
           qs == get_queryset(u, sf, projects, progress)
       IN req' = [req EXCEPT ![p] =
                    [Respond(r, 200) EXCEPT !.listing = qs, !.shown = Shown(u, qs)]]
    /\ nreq' = nreq + 1
    /\ UNCHANGED <<projects, progress, nextId, clock, versions>>

\* RetrieveModelMixin.retrieve: get_object, then the serializer
Retrieve(p, u, pk) ==
    /\ Free(p)
    /\ LET r == NewReq("retrieve", "GET", u, pk, "", EmptyBody)
       IN req' = [req EXCEPT ![p] =
            IF ~object_found(u, "", pk, projects, progress) THEN Respond(r, 404)
            ELSE IF ~check_object_permissions("retrieve", "GET", u, {},
                                              projects[pk].assigned)
                 THEN Respond(r, 403)
            ELSE [Respond(r, 200) EXCEPT !.listing = Only(pk),
                                         !.shown = Shown(u, Only(pk)),
                                         !.work = projects[pk]]]
    /\ nreq' = nreq + 1
    /\ UNCHANGED <<projects, progress, nextId, clock, versions>>

\* create (views.py 95-124), perform_create (78-93), serializer create (97-112)
Create(p, u, data) ==
    /\ Free(p)
    /\ LET r == NewReq("create", "POST", u, 1, "", data)
           free == {i \in ProjectIds : ~projects[i].exists}
       IN \E code \in DeniedStatus(u) :
            IF ~check_permissions("create", u)
            THEN /\ req' = [req EXCEPT ![p] = Respond(r, code)]
                 /\ UNCHANGED <<projects, versions>>
            ELSE IF ~project_is_valid(data, FALSE)
            THEN /\ req' = [req EXCEPT ![p] = Respond(r, 500)]
                 /\ UNCHANGED <<projects, versions>>
            ELSE /\ free # {}
                 /\ LET id == CHOOSE i \in free : \A j \in free : i <= j
                        obj == [exists |-> TRUE, title |-> data.title,
                                priority |-> IF "priority" \in data.keys
                                             THEN data.priority ELSE "medium",
                                assigned |-> IF "assigned_to" \in data.keys
                                             THEN data.assigned_to ELSE {},
                                created_by |-> u]
                    IN /\ projects' = [projects EXCEPT ![id] = obj]
                       /\ versions' = [versions EXCEPT ![id] = {Pair(obj)}]
                       /\ req' = [req EXCEPT ![p] =
                                    [Respond(r, 201) EXCEPT !.pk = id, !.work = obj,
                                                            !.listing = Only(id)]]
    /\ nreq' = nreq + 1
    /\ UNCHANGED <<progress, nextId, clock>>

\* DestroyModelMixin.destroy: the project, its assignments and, by cascade,
\* its progress entries
Destroy(p, u, pk) ==
    /\ Free(p)
    /\ LET r == NewReq("destroy", "DELETE", u, pk, "", EmptyBody)
       IN \E code \in DeniedStatus(u) :
            IF ~check_permissions("destroy", u)
            THEN /\ req' = [req EXCEPT ![p] = Respond(r, code)]
                 /\ UNCHANGED <<projects, progress, versions>>
            ELSE IF ~object_found(u, "", pk, projects, progress)
            THEN /\ req' = [req EXCEPT ![p] = Respond(r, 404)]
                 /\ UNCHANGED <<projects, progress, versions>>
            ELSE /\ projects' = [projects EXCEPT ![pk] = NoProject]
                 /\ progress' = {x \in progress : x.project # pk}
                 /\ versions' = [versions EXCEPT ![pk] = {}]
                 /\ req' = [req EXCEPT ![p] = Respond(r, 204)]
    /\ nreq' = nreq + 1
    /\ UNCHANGED <<nextId, clock>>

---------------------------------------------------------------------------
(* Project update: update / partial_update, MiniProjectSerializer.update *)

\* The decorator of MiniProjectSerializer.update without its transaction
transaction_autocommit == FALSE

\* @transaction.atomic on MiniProjectSerializer.update
transaction_atomic == TRUE

\* What the other connections read after an uncommitted write of row pk
visible(prj, pk, row) ==
    IF transaction_atomic THEN prj ELSE [prj EXCEPT ![pk] = row]

\* The row lock an open transaction holds from its first write
locked(pk, p) ==
    transaction_atomic /\ \E q \in Procs \ {p} : req[q].pending # << >> /\ req[q].pk = pk

update_action(method) == IF method = "PATCH" THEN "partial_update" ELSE "update"

\* dispatch, get_object, is_valid (UpdateModelMixin.update)
UpdateBegin(p, u, pk, method, data) ==
    /\ Free(p)
    /\ LET r == NewReq(update_action(method), method, u, pk, "", data)
       IN \E code \in DeniedStatus(u) :
            req' = [req EXCEPT ![p] =
              IF ~check_permissions(update_action(method), u) THEN Respond(r, code)
              ELSE IF ~object_found(u, "", pk, projects, progress)
                   THEN Respond(r, 404)
              ELSE IF ~project_is_valid(data, method = "PATCH") THEN Respond(r, 400)
              ELSE [r EXCEPT !.pc = "up_save", !.work = projects[pk]]]
    /\ nreq' = nreq + 1
    /\ UNCHANGED <<projects, progress, nextId, clock, versions>>

\* serializers.py 121-126: the plain fields are set and the row is saved
UpdateSave(p) ==
    /\ req[p].pc = "up_save"
    /\ ~locked(req[p].pk, p)
    /\ LET r == req[p]
           row == [projects[r.pk] EXCEPT
                     !.exists = TRUE,
                     !.title = IF "title" \in r.data.keys THEN r.data.title
                               ELSE r.work.title,
                     !.priority = IF "priority" \in r.data.keys THEN r.data.priority
                                  ELSE r.work.priority,
                     !.created_by = r.work.created_by]
       IN /\ req' = [req EXCEPT ![p] = [r EXCEPT !.pc = "up_set", !.pending = <<row>>]]
          /\ projects' = visible(projects, r.pk, row)
    /\ UNCHANGED <<progress, nextId, clock, nreq, versions>>

\* serializers.py 128-130: assigned_to.set when the payload carries it
UpdateSetAssigned(p) ==
    /\ req[p].pc = "up_set"
    /\ LET r == req[p]
           row == IF "assigned_to" \in r.data.keys
                  THEN [r.pending[1] EXCEPT !.assigned = r.data.assigned_to]
                  ELSE r.pending[1]
       IN /\ req' = [req EXCEPT ![p] = [r EXCEPT !.pc = "up_commit", !.pending = <<row>>]]
          /\ projects' = visible(projects, r.pk, row)
    /\ UNCHANGED <<progress, nextId, clock, nreq, versions>>

\* The atomic block is left: the writes are committed together
UpdateCommit(p) ==
    /\ req[p].pc = "up_commit"
    /\ LET r == req[p]
           row == r.pending[1]
       IN /\ projects' = [projects EXCEPT ![r.pk] = row]
          /\ versions' = [versions EXCEPT ![r.pk] = @ \cup {Pair(row)}]
          /\ req' = [req EXCEPT ![p] =
                       [Respond(r, 200) EXCEPT !.pending = << >>, !.work = row,
                                               !.listing = Only(r.pk)]]
    /\ UNCHANGED <<progress, nextId, clock, nreq>>

\* A statement of the atomic block raises: the transaction is rolled back
UpdateFail(p) ==
    /\ req[p].pc \in {"up_set", "up_commit"}
    /\ req' = [req EXCEPT ![p] = [Respond(@, 500) EXCEPT !.pending = << >>]]
    /\ UNCHANGED <<projects, progress, nextId, clock, nreq, versions>>

---------------------------------------------------------------------------
(* Concurrent my_progress and comment requests *)

BComment(t, c) ==
    [EmptyBody EXCEPT !.keys = {"trainee", "comment"}, !.trainee = t, !.comment = c]

ProgressBodies ==
    { BStatus("complete"),
      BStatus("inprogress"),
      BCompleted(BStatus("complete"), FullText),
      BCompleted(BStatus("inprogress"), ShortText),
      BCompleted(BStatus("inprogress"), JunkText),
      BCompleted(BStatus("inprogress"), Junk16Text),
      BNull(EmptyBody),
      [BCompleted(EmptyBody, EmptyText) EXCEPT !.html = TRUE],
      [BKey(EmptyBody, "github_link") EXCEPT !.github_link = "http://g"] }

CommentBodies ==
    { BComment(2, " good "), BComment(2, "  "), BComment(3, "good"),
      BComment(UnknownUserId, "good") }

Step(p) ==
    \/ MyProgressAssigned(p)
    \/ GetOrCreate(p)
    \/ MyProgressSave(p)
    \/ MyProgressCompleted(p)
    \/ CommentAssigned(p)
    \/ CommentSave(p)

Next ==
    \E p \in Procs :
        \/ \E u \in Users, method \in {"GET", "PATCH", "PUT"}, data \in ProgressBodies :
              MyProgressBegin(p, u, 1, method, IF method = "GET" THEN EmptyBody ELSE data)
        \/ \E u \in Users, data \in CommentBodies : CommentBegin(p, u, 1, data)
        \/ Step(p)

Spec == Init /\ [][Next]_vars

---------------------------------------------------------------------------
(* Properties of concurrent my_progress and comment requests *)

PastGoc(r) == r.goc # ""

GocFailed(r) ==
    r.action \in {"my_progress", "comment"} /\ r.pc = "done" /\ r.resp = 500 /\ r.goc = ""

\* C1: at most one Progress-Entry exists per (trainee, project) pair in every
\* reachable state; no get-or-create ends in an error; every caller holds an
\* entry of the pair it asked for, and callers of the same pair hold the same
\* row, so that concurrent first-touch requests create exactly one row.
C1_OneEntryPerPair ==
    /\ \A t \in Users, i \in ProjectIds : Cardinality(rows_for(progress, t, i)) <= 1
    /\ \A p \in Procs : ~GocFailed(req[p])
    /\ \A p \in Procs : PastGoc(req[p]) =>
          /\ req[p].pre[1].trainee = goc_trainee(req[p])
          /\ req[p].pre[1].project = req[p].pk
          /\ \E r \in progress : r.id = req[p].pre[1].id
    /\ \A p, q \in Procs :
          (/\ PastGoc(req[p]) /\ PastGoc(req[q])
           /\ goc_trainee(req[p]) = goc_trainee(req[q])
           /\ req[p].pk = req[q].pk)
          => req[p].pre[1].id = req[q].pre[1].id

\* Two first-touch requests for one pair raced: one created the row, the
\* other was refused by the constraint and fetched that row.
C1_Witness ==
    \E p, q \in Procs :
        /\ req[p].goc = "created" /\ req[q].goc = "refetched"
        /\ goc_trainee(req[p]) = goc_trainee(req[q])
        /\ req[p].pre[1].id = req[q].pre[1].id
        /\ Cardinality(progress) = 1

UpdateDone(r) ==
    r.action = "my_progress" /\ r.method \in {"PATCH", "PUT"}
    /\ r.pc = "done" /\ PastGoc(r)

\* C3: in a my_progress PATCH/PUT the completion timestamp is set to the
\* server time iff the request supplied no completed_at value, the resulting
\* status is complete and no completion timestamp was stored before the
\* request; a timestamp stored before the request is never replaced by it.
C3_AutoSetIff ==
    \A p \in Procs :
        (UpdateDone(req[p]) /\ req[p].resp = 200) =>
            /\ req[p].autoset <=>
                  (/\ ~client_completed(req[p].data)
                   /\ req[p].inst[1].status = "complete"
                   /\ req[p].pre[1].completed_at = None)
            /\ req[p].autoset => req[p].pre[1].completed_at = None

TraineeFields(r) ==
    <<r.status, r.report, r.deployment_link, r.github_link, r.completed_at>>

\* C8: a successful comment action changes only the trainer comment of its
\* entry, setting it to the trimmed text: every entry keeps the status,
\* report, links and completion timestamp it had, also when a my_progress
\* update of the same entry runs concurrently.
C8_CommentFrame ==
    [][\A p \in Procs :
          (req[p].pc = "cm_save" /\ req'[p].pc = "done") =>
             /\ \A r \in progress : \E r2 \in progress' :
                   r2.id = r.id /\ TraineeFields(r2) = TraineeFields(r)
             /\ \E r2 \in progress' :
                   /\ r2.id = req[p].inst[1].id
                   /\ r2.trainer_comment = strip(req[p].data.comment)]_vars

\* The body without its completed_at
WithoutCompleted(data) == [data EXCEPT !.keys = @ \ {"completed_at"}]

\* C10: a my_progress PATCH/PUT whose completed_at cannot be parsed (neither
\* in full form nor as the 16-character form completed with ':00') succeeds,
\* applies the other supplied fields and leaves the stored completion
\* timestamp as it was.
C10_UnparseableIgnored ==
    \A p \in Procs :
        LET r == req[p]
        IN (/\ UpdateDone(r)
            /\ client_completed(r.data)
            /\ client_parsed(r.data.completed_at) = None
            /\ progress_is_valid(WithoutCompleted(r.data), r.method = "PATCH"))
           => /\ r.resp = 200
              /\ r.out = {progress_apply(r.pre[1], WithoutCompleted(r.data))}

---------------------------------------------------------------------------
(* my_progress and comment requests served one after another *)

SerialBodies ==
    ProgressBodies \cup
    { [BKey(BStatus("complete"), "trainee") EXCEPT !.trainee = 3],
      BNull(BStatus("complete")) }

NextSerial ==
    \E p \in {"a"} :
        \/ \E u \in Users, method \in {"GET", "PATCH", "PUT"}, data \in SerialBodies :
              MyProgressBegin(p, u, 1, method, IF method = "GET" THEN EmptyBody ELSE data)
        \/ \E u \in Users, data \in CommentBodies : CommentBegin(p, u, 1, data)
        \/ Step(p)

SpecSerial == Init /\ [][NextSerial]_vars

\* No request is in flight
Quiescent == \A p \in Procs : req[p].pc \in {"idle", "done"}

\* C11: after every completed request of a sequence of my_progress and
\* comment requests, each Progress-Entry whose status is complete has a
\* completion timestamp (an entry moved back from complete may keep its own).
C11_CompleteHasTimestamp ==
    Quiescent =>
        \A r \in progress : r.status = "complete" => r.completed_at # None

\* A request cleared the timestamp of an entry that was complete, and the
\* entry is complete with a timestamp after it.
C11_Witness ==
    /\ Quiescent
    /\ \E p \in Procs :
          /\ UpdateDone(req[p]) /\ req[p].resp = 200
          /\ req[p].data.completed_at_null
          /\ req[p].pre[1].status = "complete"
          /\ req[p].pre[1].completed_at # None
          /\ \E r \in progress :
                /\ r.id = req[p].pre[1].id
                /\ r.status = "complete" /\ r.completed_at # None

---------------------------------------------------------------------------
(* One worker serving every endpoint, for any actor *)

Actors == Users \cup {Anon}

AccessProgressBodies ==
    { BStatus("inprogress"),
      BKey(BStatus("complete"), "csrfmiddlewaretoken"),
      BKey(EmptyBody, "csrfmiddlewaretoken"),
      [BKey(BStatus("inprogress"), "trainer_comment") EXCEPT !.trainer_comment = "self"],
      [BKey(BStatus("inprogress"), "trainee") EXCEPT !.trainee = 3],
      EmptyBody }

BProject(keys, title, assigned) ==
    [EmptyBody EXCEPT !.keys = keys, !.title = title, !.assigned_to = assigned]

ProjectBodies ==
    { BProject({"title", "assigned_to"}, "t1", {3}),
      BProject({"title"}, "t2", {}),
      BProject({"assigned_to"}, NoStr, {2, 3}),
      BProject({"title", "assigned_to"}, "t3", {1, 2}) }

UpdateStep(p) ==
    \/ UpdateSave(p)
    \/ UpdateSetAssigned(p)
    \/ UpdateCommit(p)
    \/ UpdateFail(p)

NextAccess ==
    \E p \in {"a"} :
        \/ \E u \in Actors, pk \in ProjectIds, method \in {"PATCH", "PUT"},
              data \in AccessProgressBodies : MyProgressBegin(p, u, pk, method, data)
        \/ \E u \in Actors, pk \in ProjectIds : MyProgressBegin(p, u, pk, "GET", EmptyBody)
        \/ \E u \in Actors, pk \in ProjectIds, data \in CommentBodies :
              CommentBegin(p, u, pk, data)
        \/ \E u \in Actors, data \in ProjectBodies : Create(p, u, data)
        \/ \E u \in Actors, pk \in ProjectIds : Destroy(p, u, pk)
        \/ \E u \in Actors, pk \in ProjectIds, method \in {"PATCH", "PUT"},
              data \in ProjectBodies : UpdateBegin(p, u, pk, method, data)
        \/ Step(p)
        \/ UpdateStep(p)

SpecAccess == Init /\ [][NextAccess]_vars

Unsafe(r) == r.method \in {"POST", "PUT", "PATCH", "DELETE"}

Started(r) == r.pc # "idle"

\* C2: every unsafe-method request of a trainee whose body names a field
\* outside {status, report, deployment_link, github_link, completed_at}
\* (csrfmiddlewaretoken aside) is denied before its handler runs, assigned or
\* not: it ends 403, or 404 where the project is outside the trainee's
\* queryset, and never reaches the handler's body.
C2_TraineeFieldsDenied ==
    \A p \in Procs :
        LET r == req[p]
        IN (/\ Started(r) /\ is_authenticated(r.user) /\ role(r.user) = "trainee"
            /\ Unsafe(r)
            /\ ~((r.data.keys \ IGNORED_KEYS) \subseteq TRAINEE_ALLOWED_FIELDS))
           => /\ r.pc = "done"
              /\ r.resp \in {403, 404}
              /\ r.goc = ""

\* An assigned trainee's my_progress PATCH naming trainer_comment was denied.
C2_Witness ==
    \E p \in Procs :
        LET r == req[p]
        IN /\ r.action = "my_progress" /\ r.method = "PATCH" /\ r.user = 2
           /\ r.user \in projects[r.pk].assigned
           /\ "trainer_comment" \in r.data.keys
           /\ r.pc = "done" /\ r.resp = 403

\* C4: a my_progress request of an actor outside the project's assigned set
\* (a trainee in particular) is answered 403 and creates no Progress-Entry.
C4_NotAssigned403 ==
    \A p \in Procs :
        LET r == req[p]
        IN (/\ r.action = "my_progress" /\ r.pc = "done"
            /\ is_authenticated(r.user) /\ role(r.user) = "trainee"
            /\ projects[r.pk].exists
            /\ r.user \notin projects[r.pk].assigned)
           => r.resp = 403 /\ r.goc = ""

ProjectWrite(r) == r.action \in {"create", "update", "partial_update", "destroy"}

TrainerActor(u) == u \in Users /\ role(u) = "trainer"

\* C7: creating, updating and deleting a project succeed only for a trainer:
\* such a request of any other actor, assigned or not, is denied, and a step
\* that changes the projects is always a step of a trainer's request.
C7_TrainerOnlyWrites ==
    /\ [](\A p \in Procs :
            (ProjectWrite(req[p]) /\ ~TrainerActor(req[p].user))
            => req[p].pc = "done" /\ req[p].resp \in {401, 403})
    /\ [][projects' # projects =>
            \E p \in Procs : /\ req'[p] # req[p]
                             /\ TrainerActor(req'[p].user)]_vars

\* A trainee assigned to the project had its update of the project denied.
C7_Witness ==
    \E p \in Procs :
        LET r == req[p]
        IN /\ r.action \in {"update", "partial_update"} /\ r.user = 2
           /\ r.user \in projects[r.pk].assigned
           /\ r.pc = "done" /\ r.resp = 403

---------------------------------------------------------------------------
(* Listing and serializing projects over the database states *)

StatusOptions == {"absent", "todo", "inprogress"}

QueryPairs == {2, 3} \X ProjectIds

\* The entry of a pair with the given status, one primary key per pair
EntryOf(t, i, st) == [NewProgress(2 * (i - 1) + (t - 1), t, i) EXCEPT !.status = st]

InitQuery ==
    /\ \E a1 \in SUBSET {2, 3}, a2 \in SUBSET {2, 3} :
          projects = [i \in ProjectIds |->
                        [exists |-> TRUE, title |-> "t0", priority |-> "medium",
                         assigned |-> IF i = 1 THEN a1 ELSE a2, created_by |-> 1]]
    /\ \E st \in [QueryPairs -> StatusOptions] :
          progress = {EntryOf(tp[1], tp[2], st[tp]) :
                         tp \in {x \in QueryPairs : st[x] # "absent"}}
    /\ nextId = 5
    /\ clock = 0
    /\ req = [p \in Procs |-> IdleReq]
    /\ nreq = 0
    /\ versions = InitVersions(projects)

StatusFilters == {"", "todo", "inprogress"}

NextQuery ==
    \E p \in {"a"} :
        \/ \E u \in Actors, sf \in StatusFilters : List(p, u, sf)
        \/ \E u \in Actors, pk \in ProjectIds : Retrieve(p, u, pk)

SpecQuery == InitQuery /\ [][NextQuery]_vars

\* The projects a listing has to hold, by the actor and the status filter
ReferenceList(u, sf) ==
    IF u \notin Users THEN {}
    ELSE IF role(u) = "trainer"
    THEN {i \in ProjectIds :
            /\ projects[i].exists
            /\ sf # "" => \E e \in progress : e.project = i /\ e.status = sf}
    ELSE {i \in ProjectIds :
            /\ projects[i].exists /\ u \in projects[i].assigned
            /\ sf # "" => \E e \in progress :
                             e.project = i /\ e.trainee = u /\ e.status = sf}

\* C5: the project list of an actor and an optional status filter holds
\* exactly the reference set, each project once: nothing for an
\* unauthenticated actor; for a trainer all projects, or with a filter those
\* with an entry of that status; for a trainee the assigned projects, and
\* with a filter those where the trainee's own entry has that status.
C5_ListIsReference ==
    \A p \in Procs :
        (req[p].action = "list" /\ req[p].pc = "done") =>
            /\ req[p].resp = 200
            /\ \A i \in ProjectIds :
                  req[p].listing[i] =
                      IF i \in ReferenceList(req[p].user, req[p].status_filter) THEN 1 ELSE 0

\* A trainee filtered by a status that only another trainee's entry has on
\* one assigned project, and that its own entry has on the other: the first
\* project is left out, the second is listed once.
C5_Witness ==
    \E p \in Procs :
        LET r == req[p]
        IN /\ r.action = "list" /\ r.pc = "done" /\ r.status_filter = "inprogress"
           /\ r.user = 2 /\ 2 \in projects[1].assigned
           /\ r.listing[1] = 0 /\ r.listing[2] = 1
           /\ \E e \in progress : e.project = 1 /\ e.trainee = 3 /\ e.status = "inprogress"
           /\ Cardinality({e \in progress : e.project = 2 /\ e.status = "inprogress"}) = 2

\* C6: a project serialized for a trainee carries exactly the entries of that
\* trainee (none or one) and never an entry of another trainee; serialized
\* for a trainer it carries all entries of the project.
C6_OwnEntriesOnly ==
    \A p \in Procs :
        LET r == req[p]
        IN (r.action \in {"list", "retrieve"} /\ r.pc = "done" /\ r.resp = 200) =>
             \A i \in ProjectIds : r.listing[i] > 0 =>
                IF role(r.user) = "trainee"
                THEN /\ \A e \in r.shown[i] : e.trainee = r.user
                     /\ \A e \in progress :
                           (e.project = i /\ e.trainee = r.user) => e \in r.shown[i]
                     /\ Cardinality(r.shown[i]) <= 1
                ELSE r.shown[i] = {e \in progress : e.project = i}

\* A project with entries of trainees 2 and 3 was serialized for trainee 2.
C6_Witness ==
    \E p \in Procs :
        LET r == req[p]
        IN /\ r.action = "retrieve" /\ r.pc = "done" /\ r.resp = 200 /\ r.user = 2
           /\ Cardinality(r.shown[r.pk]) = 1
           /\ \E e \in progress : e.project = r.pk /\ e.trainee = 3

---------------------------------------------------------------------------
(* Concurrent project updates and readers *)

NextUpdate ==
    \E p \in Procs :
        \/ \E method \in {"PATCH", "PUT"}, data \in ProjectBodies :
              UpdateBegin(p, 1, 1, method, data)
        \/ Retrieve(p, 1, 1)
        \/ UpdateStep(p)

SpecUpdate == Init /\ [][NextUpdate]_vars

C9_FailedWitness ==
    \E p \in Procs :
        /\ req[p].action \in {"update", "partial_update"}
        /\ req[p].pc = "done" /\ req[p].resp = 500
        /\ "title" \in req[p].data.keys
        /\ req[p].data.title # projects[1].title
        /\ projects[1] = req[p].work

---------------------------------------------------------------------------
(* my_progress and comment requests concurrent with project updates *)

ReassignBodies ==
    { BProject({"assigned_to"}, NoStr, {1, 3}),
      BProject({"title", "assigned_to"}, "t3", {1, 2}) }

NextReassign ==
    \E p \in Procs :
        \/ \E method \in {"GET", "PATCH"} :
              MyProgressBegin(p, 2, 1, method,
                              IF method = "GET" THEN EmptyBody ELSE BStatus("inprogress"))
        \/ CommentBegin(p, 1, 1, BComment(2, "good"))
        \/ \E data \in ReassignBodies : UpdateBegin(p, 1, 1, "PATCH", data)
        \/ Step(p)
        \/ UpdateStep(p)

SpecReassign == Init /\ [][NextReassign]_vars

\* The rows of the next state whose primary key the table does not hold yet
Created == {r \in progress' : \A x \in progress : x.id # r.id}

\* C12: a Progress-Entry for (user, project) is created only at a moment when
\* the user is in the project's assigned set, also when a project update
\* that removes the user commits between the handler's membership check and
\* its get-or-create.
C12_CreatedWhileAssigned ==
    [][\A r \in Created : r.trainee \in projects[r.project].assigned]_vars

====
